---- MODULE Spec2Model ----
(***************************************************************************)
(* Model of the market_game matching engine (src/src/models.rs), the Game  *)
(* facade that builds a market (src/src/game.rs) and the request handlers  *)
(* that turn requests into events (src/src/server.rs).                     *)
(*                                                                         *)
(* Every fallible function of the source is an operator that returns a     *)
(* record [err, ...]: err = "Ok" for Ok(..), the name of the ErrorType     *)
(* variant for Err(..), and "Panic" where the source panics (panic!, a     *)
(* failed debug assertion, an arithmetic underflow of a usize).            *)
(***************************************************************************)
EXTENDS Integers, Sequences, FiniteSets, TLC

\* ---------------------------------------------------------------- bounds
\* Number of requests served.
MaxEvents == 2
\* Largest quantity a request may carry (0 is sent too, and refused).
MaxQuantity == 3
\* Largest limit price a request may carry (0 is sent too, and refused).
MaxLimit == 2
\* Coins handed to a portfolio by create_portfolio.
InitialCoins == 5
\* Units handed out by one set_asset_amount call.
InitialAssets == 2

\* The flat fee of Engine::bill_fee_for.
Fee == 1
\* Lifetime of an order placed through the server, in seconds.
Expiry == 24 * 60 * 60

PortfolioIds == <<"p1", "p2">>
AssetIds == <<"a1", "a2">>

Range(s) == {s[i] : i \in 1..Len(s)}

\* ------------------------------------------------------------ OrderMode
Best == [kind |-> "Best", limit |-> 0]
Limit(l) == [kind |-> "Limit", limit |-> l]

get_limit(mode) ==
    IF mode.kind = "Limit" THEN [err |-> "Ok", val |-> mode.limit]
    ELSE [err |-> "NoLimitForBestOrder", val |-> 0]

\* ---------------------------------------------------------------- Order
NoOrder ==
    [id |-> 0, asset |-> "none", mode |-> Best, side |-> "Sell", quantity |-> 0,
     expires |-> 0, created_at |-> 0, portfolio |-> "none"]

\* Order::new; id stands for Uuid::new_v4() and now for Instant::now().
Order_new(portfolio, asset, side, quantity, mode, expires, id, now) ==
    IF quantity = 0 THEN [err |-> "QuantityCantBeZero", order |-> NoOrder]
    ELSE IF mode.kind = "Limit" /\ mode.limit = 0
    THEN [err |-> "LimitCantBeZero", order |-> NoOrder]
    ELSE [err |-> "Ok",
          order |-> [id |-> id, asset |-> asset, mode |-> mode, side |-> side,
                     quantity |-> quantity, expires |-> expires,
                     created_at |-> now, portfolio |-> portfolio]]

\* Mutant: two Limit orders of opposite sides match whatever their limits.
matches_any_limit(self, o) ==
    /\ self.asset = o.asset
    /\ self.side # o.side
    /\ ~(self.mode.kind = "Best" /\ o.mode.kind = "Best")

matches(self, o) ==
    IF self.asset # o.asset THEN FALSE
    ELSE IF ~((self.side = "Sell" /\ o.side = "Buy") \/ (self.side = "Buy" /\ o.side = "Sell"))
    THEN FALSE
    ELSE IF self.mode.kind = "Limit" /\ o.mode.kind = "Best" THEN TRUE
    ELSE IF self.mode.kind = "Best" /\ o.mode.kind = "Limit" THEN TRUE
    ELSE IF self.mode.kind = "Best" /\ o.mode.kind = "Best" THEN FALSE
    ELSE IF self.side = "Sell" /\ o.side = "Buy" THEN self.mode.limit <= o.mode.limit
    ELSE IF self.side = "Buy" /\ o.side = "Sell" THEN self.mode.limit >= o.mode.limit
    ELSE FALSE

\* Order::split: (left, right) with left.quantity = split_quantity.
split(self, split_quantity) ==
    IF split_quantity >= self.quantity
    THEN [err |-> "CantSplitOrder", left |-> NoOrder, right |-> NoOrder]
    ELSE LET left == [self EXCEPT !.quantity = split_quantity]
             right == [self EXCEPT !.quantity = self.quantity - left.quantity]
         IN IF left.quantity + right.quantity # self.quantity
            THEN [err |-> "Panic", left |-> left, right |-> right]
            ELSE [err |-> "Ok", left |-> left, right |-> right]

\* -------------------------------------------------------------- Account
Account_new(initial_amount) ==
    [total_amount |-> initial_amount, locked_amount |-> 0]

\* usize subtraction: below zero it panics (overflow checks are on where the
\* debug assertions are), so callers test Underflows first.
get_free_amount(acc) == acc.total_amount - acc.locked_amount
Underflows(acc) == acc.total_amount < acc.locked_amount

lock_amount(acc, amount_to_lock) ==
    IF Underflows(acc) THEN [err |-> "Panic", acc |-> acc]
    ELSE IF get_free_amount(acc) >= amount_to_lock
    THEN LET a2 == [acc EXCEPT !.locked_amount = @ + amount_to_lock]
         IN IF a2.locked_amount <= a2.total_amount
            THEN [err |-> "Ok", acc |-> a2]
            ELSE [err |-> "Panic", acc |-> a2]
    ELSE [err |-> "InsufficientFreeAmount", acc |-> acc]

spend_from_locked_amount(acc, amount_to_spend) ==
    IF acc.locked_amount >= amount_to_spend
    THEN LET a2 == [acc EXCEPT !.locked_amount = @ - amount_to_spend]
         IN IF a2.total_amount >= amount_to_spend
            THEN [err |-> "Ok", acc |-> [a2 EXCEPT !.total_amount = @ - amount_to_spend]]
            ELSE [err |-> "Panic", acc |-> a2]
    ELSE [err |-> "InsufficientLockedAmount", acc |-> acc]

\* Mutant: the guard reads the total, not the free amount.
spend_from_free_amount_of_total(acc, amount_to_spend) ==
    IF acc.total_amount >= amount_to_spend
    THEN [err |-> "Ok", acc |-> [acc EXCEPT !.total_amount = @ - amount_to_spend]]
    ELSE [err |-> "InsufficientFreeAmount", acc |-> acc]

spend_from_free_amount(acc, amount_to_spend) ==
    IF Underflows(acc) THEN [err |-> "Panic", acc |-> acc]
    ELSE IF get_free_amount(acc) >= amount_to_spend
    THEN [err |-> "Ok", acc |-> [acc EXCEPT !.total_amount = @ - amount_to_spend]]
    ELSE [err |-> "InsufficientFreeAmount", acc |-> acc]

unlock_amount(acc, amount_to_unlock) ==
    IF acc.locked_amount >= amount_to_unlock
    THEN [err |-> "Ok", acc |-> [acc EXCEPT !.locked_amount = @ - amount_to_unlock]]
    ELSE [err |-> "InsufficientLockedAmount", acc |-> acc]

Account_add(acc, amount) == [acc EXCEPT !.total_amount = @ + amount]

\* ----------------------------------------------------------------- Book
Book_new(asset_id) ==
    [asset_id |-> asset_id, sell_orders |-> <<>>, buy_orders |-> <<>>]

CmpNat(x, y) == IF x < y THEN "Less" ELSE IF x > y THEN "Greater" ELSE "Equal"

\* Book::cmp_orders. Ordering::reverse takes the ordering by value and returns
\* the reversed one; the source drops that value, so the flag changes nothing.
cmp_orders(a, b, revert_price_order) ==
    LET order == IF a.mode.kind = "Best" /\ b.mode.kind = "Best" THEN "Equal"
                 ELSE IF a.mode.kind = "Best" THEN "Less"
                 ELSE IF b.mode.kind = "Best" THEN "Greater"
                 ELSE CmpNat(a.mode.limit, b.mode.limit)
    IN IF order = "Equal" THEN CmpNat(a.created_at, b.created_at) ELSE order

\* One step of a stable sort: x goes before the first element greater than it.
RECURSIVE InsertStable(_, _, _)
InsertStable(sorted, x, revert) ==
    IF sorted = <<>> THEN <<x>>
    ELSE IF cmp_orders(Head(sorted), x, revert) = "Greater" THEN <<x>> \o sorted
    ELSE <<Head(sorted)>> \o InsertStable(Tail(sorted), x, revert)

\* slice::sort_by with the comparator |a, b| Book::cmp_orders(a, b, revert).
RECURSIVE sort_by(_, _)
sort_by(orders, revert) ==
    IF orders = <<>> THEN <<>>
    ELSE InsertStable(sort_by(SubSeq(orders, 1, Len(orders) - 1), revert),
                      orders[Len(orders)], revert)

sort_buy_orders(book) == [book EXCEPT !.buy_orders = sort_by(@, FALSE)]

\* Book::sort_sell_orders sorts buy_orders; sell_orders stays in push order.
sort_sell_orders(book) == [book EXCEPT !.buy_orders = sort_by(@, FALSE)]

\* Mutant: a Best order is let into the book.
Book_add_order_any_mode(book, order) ==
    IF order.side = "Sell"
    THEN [err |-> "Ok",
          book |-> sort_sell_orders([book EXCEPT !.sell_orders = Append(@, order)])]
    ELSE [err |-> "Ok",
          book |-> sort_buy_orders([book EXCEPT !.buy_orders = Append(@, order)])]

Book_add_order(book, order) ==
    IF order.mode = Best
    THEN [err |-> "NotEnoughMatchingOrdersToImmediatelyFillBestOrder", book |-> book]
    ELSE IF order.side = "Sell"
    THEN [err |-> "Ok",
          book |-> sort_sell_orders([book EXCEPT !.sell_orders = Append(@, order)])]
    ELSE [err |-> "Ok",
          book |-> sort_buy_orders([book EXCEPT !.buy_orders = Append(@, order)])]

Retain(orders, id) == SelectSeq(orders, LAMBDA o : o.id # id)

Book_remove_order(book, id) ==
    [book EXCEPT !.sell_orders = Retain(@, id), !.buy_orders = Retain(@, id)]

\* The loop of find_best_candidates_to_fill from position i on.
RECURSIVE CandidatesFrom(_, _, _, _, _)
CandidatesFrom(other_side, order, i, candidates, fill_count) ==
    IF i > Len(other_side) THEN candidates
    ELSE IF ~matches(order, other_side[i]) THEN candidates
    ELSE LET c2 == Append(candidates, other_side[i])
             f2 == fill_count + other_side[i].quantity
         IN IF f2 >= order.quantity THEN c2
            ELSE CandidatesFrom(other_side, order, i + 1, c2, f2)

\* Mutant: the loop does not stop once the candidates fill the order.
find_best_candidates_unbounded(book, order) ==
    LET other_side == IF order.side = "Sell" THEN book.buy_orders ELSE book.sell_orders
    IN SelectSeq(other_side, LAMBDA o : matches(order, o))

find_best_candidates_to_fill(book, order) ==
    LET other_side == IF order.side = "Sell" THEN book.buy_orders ELSE book.sell_orders
    IN CandidatesFrom(other_side, order, 1, <<>>, 0)

Book_get_order(book, id) ==
    LET s == SelectSeq(book.sell_orders, LAMBDA o : o.id = id)
        b == SelectSeq(book.buy_orders, LAMBDA o : o.id = id)
    IN IF s # <<>> THEN [err |-> "Ok", order |-> Head(s)]
       ELSE IF b # <<>> THEN [err |-> "Ok", order |-> Head(b)]
       ELSE [err |-> "OrderNotFound", order |-> NoOrder]

\* ------------------------------------------------------------ Portfolio
Portfolio_new(id, initial_coins) ==
    [id |-> id, coins |-> Account_new(initial_coins), assets |-> <<>>]

\* --------------------------------------------------------------- Market
\* A market m is [bank_account, portfolios, assets, books]; the three maps are
\* functions whose DOMAIN is the key set of the HashMap. A Market operator
\* returns [err, m, trades]: m is the market as the call leaves it and trades
\* lists the exchanges it carried out. The operators named X_then, X_to, ...
\* are the rest of X after the call whose result they take as an argument.
Market_new ==
    [bank_account |-> 0, portfolios |-> <<>>, assets |-> {}, books |-> <<>>]

Res(err, m) == [err |-> err, m |-> m, trades |-> <<>>]

WithTrades(r, trades) == [err |-> r.err, m |-> r.m, trades |-> trades]

Put(f, k, v) == [x \in DOMAIN f \cup {k} |-> IF x = k THEN v ELSE f[x]]

bill_fee_then(m, portfolio_id, amount, spent) ==
    IF spent.err # "Ok" THEN Res(spent.err, m)
    ELSE Res("Ok", [m EXCEPT !.portfolios[portfolio_id].coins = spent.acc,
                             !.bank_account = @ + amount])

bill_fee(m, portfolio_id, amount) ==
    IF portfolio_id \notin DOMAIN m.portfolios THEN Res("PortfolioNotFound", m)
    ELSE bill_fee_then(m, portfolio_id, amount,
             spend_from_free_amount(m.portfolios[portfolio_id].coins, amount))

Market_remove_order(m, asset, order) ==
    IF asset \notin DOMAIN m.books THEN Res("AssetNotFound", m)
    ELSE Res("Ok", [m EXCEPT !.books[asset] = Book_remove_order(@, order)])

\* Mutant: the receiver is credited one unit short.
transfer_asset_to_short(m, to, asset, amount) ==
    IF to \notin DOMAIN m.portfolios THEN Res("PortfolioNotFound", m)
    ELSE IF asset \notin DOMAIN m.portfolios[to].assets THEN Res("AssetNotFound", m)
    ELSE Res("Ok", [m EXCEPT !.portfolios[to].assets[asset] = Account_add(@, amount - 1)])

\* The second block of transfer_asset, on the market the first block leaves.
transfer_asset_to(m, to, asset, amount) ==
    IF to \notin DOMAIN m.portfolios THEN Res("PortfolioNotFound", m)
    ELSE IF asset \notin DOMAIN m.portfolios[to].assets THEN Res("AssetNotFound", m)
    ELSE Res("Ok", [m EXCEPT !.portfolios[to].assets[asset] = Account_add(@, amount)])

transfer_asset_then(m, from, to, asset, amount, spent) ==
    IF spent.err # "Ok"
    THEN Res(spent.err, [m EXCEPT !.portfolios[from].assets[asset] = spent.acc])
    ELSE transfer_asset_to([m EXCEPT !.portfolios[from].assets[asset] = spent.acc],
                           to, asset, amount)

transfer_asset(m, from, to, asset, amount, spend_locked_assets) ==
    IF from \notin DOMAIN m.portfolios THEN Res("PortfolioNotFound", m)
    ELSE IF asset \notin DOMAIN m.portfolios[from].assets THEN Res("AssetNotFound", m)
    ELSE transfer_asset_then(m, from, to, asset, amount,
             IF spend_locked_assets
             THEN spend_from_locked_amount(m.portfolios[from].assets[asset], amount)
             ELSE spend_from_free_amount(m.portfolios[from].assets[asset], amount))

\* Mutant: the receiver is credited one coin short.
transfer_coins_to_short(m, to, amount) ==
    IF to \notin DOMAIN m.portfolios THEN Res("PortfolioNotFound", m)
    ELSE Res("Ok", [m EXCEPT !.portfolios[to].coins = Account_add(@, amount - 1)])

\* The second block of transfer_coins, on the market the first block leaves.
transfer_coins_to(m, to, amount) ==
    IF to \notin DOMAIN m.portfolios THEN Res("PortfolioNotFound", m)
    ELSE Res("Ok", [m EXCEPT !.portfolios[to].coins = Account_add(@, amount)])

transfer_coins_then(m, from, to, amount, spent) ==
    IF spent.err # "Ok"
    THEN Res(spent.err, [m EXCEPT !.portfolios[from].coins = spent.acc])
    ELSE transfer_coins_to([m EXCEPT !.portfolios[from].coins = spent.acc], to, amount)

transfer_coins(m, from, to, amount, spend_locked_coins) ==
    IF from \notin DOMAIN m.portfolios THEN Res("PortfolioNotFound", m)
    ELSE transfer_coins_then(m, from, to, amount,
             IF spend_locked_coins
             THEN spend_from_locked_amount(m.portfolios[from].coins, amount)
             ELSE spend_from_free_amount(m.portfolios[from].coins, amount))

exchange_then(assets_moved, buyer, seller, amount, use_locked_coins) ==
    IF assets_moved.err # "Ok" THEN assets_moved
    ELSE transfer_coins(assets_moved.m, buyer, seller, amount, use_locked_coins)

exchange(m, buyer, seller, asset_id, asset_count, price_per_asset, use_locked_coins, use_locked_assets) ==
    exchange_then(
        transfer_asset(m, seller, buyer, asset_id, asset_count, use_locked_assets),
        buyer, seller, price_per_asset * asset_count, use_locked_coins)

\* The last statement of Market::add_order: the order goes to its book.
add_order_booked(m, order, booked) ==
    Res(booked.err, [m EXCEPT !.books[order.asset] = booked.book])

add_order_to_book(m, order) ==
    IF order.asset \notin DOMAIN m.books THEN Res("AssetNotFound", m)
    ELSE add_order_booked(m, order, Book_add_order(m.books[order.asset], order))

add_order_then(m, order, locked) ==
    IF locked.err # "Ok" THEN Res(locked.err, m)
    ELSE IF order.side = "Sell"
    THEN add_order_to_book(
             [m EXCEPT !.portfolios[order.portfolio].assets[order.asset] = locked.acc],
             order)
    ELSE add_order_to_book(
             [m EXCEPT !.portfolios[order.portfolio].coins = locked.acc], order)

Market_add_order(m, order, lock_amount_flag) ==
    IF order.portfolio \notin DOMAIN m.portfolios THEN Res("PortfolioNotFound", m)
    ELSE IF ~lock_amount_flag THEN add_order_to_book(m, order)
    ELSE IF /\ order.side = "Sell"
            /\ order.asset \notin DOMAIN m.portfolios[order.portfolio].assets
    THEN Res("AssetNotFound", m)
    ELSE IF order.mode.kind # "Limit" THEN Res("CantLockAmountForBestOrder", m)
    ELSE IF order.side = "Sell"
    THEN add_order_then(m, order,
             lock_amount(m.portfolios[order.portfolio].assets[order.asset],
                         order.quantity))
    ELSE add_order_then(m, order,
             lock_amount(m.portfolios[order.portfolio].coins,
                         order.quantity * order.mode.limit))

\* process_trade -----------------------------------------------------------
Buyer(filled_order, other) ==
    IF filled_order.side = "Buy" THEN filled_order.portfolio ELSE other.portfolio

Seller(filled_order, other) ==
    IF filled_order.side = "Buy" THEN other.portfolio ELSE filled_order.portfolio

\* Mutant: the price is the resting order's limit whatever the incoming mode.
price_per_asset_of_other(filled_order, other) == get_limit(other.mode)

price_per_asset(filled_order, other) ==
    IF filled_order.mode.kind = "Best" THEN get_limit(other.mode)
    ELSE [err |-> "Ok", val |-> filled_order.mode.limit]

Trade(filled_order, other, price) ==
    [buyer |-> Buyer(filled_order, other), seller |-> Seller(filled_order, other),
     asset |-> filled_order.asset, quantity |-> other.quantity, price |-> price,
     incoming |-> filled_order, other |-> other]

RECURSIVE TradeFrom(_, _, _, _, _)

\* After self.remove_order(other.asset, other.id): the next candidate.
trade_removed(removed, filled_order, other_side, i, trades) ==
    IF removed.err # "Ok" THEN WithTrades(removed, trades)
    ELSE TradeFrom(removed.m, filled_order, other_side, i + 1, trades)

\* After self.exchange(..): the candidate leaves its book.
trade_exchanged(exchanged, filled_order, other_side, i, trades, price) ==
    IF exchanged.err # "Ok" THEN WithTrades(exchanged, trades)
    ELSE trade_removed(
             Market_remove_order(exchanged.m, other_side[i].asset, other_side[i].id),
             filled_order, other_side, i,
             Append(trades, Trade(filled_order, other_side[i], price)))

trade_priced(m, filled_order, other_side, i, trades, price) ==
    IF price.err # "Ok" THEN WithTrades(Res(price.err, m), trades)
    ELSE trade_exchanged(
             exchange(m, Buyer(filled_order, other_side[i]),
                      Seller(filled_order, other_side[i]), filled_order.asset,
                      other_side[i].quantity, price.val,
                      filled_order.side = "Sell", filled_order.side = "Buy"),
             filled_order, other_side, i, trades, price.val)

\* The for loop of process_trade from candidate i on, then the removal of the
\* filled order itself.
TradeFrom(m, filled_order, other_side, i, trades) ==
    IF i > Len(other_side)
    THEN WithTrades(Market_remove_order(m, filled_order.asset, filled_order.id), trades)
    ELSE IF filled_order.asset # other_side[i].asset
    THEN WithTrades(Res("Panic", m), trades)
    ELSE trade_priced(m, filled_order, other_side, i, trades,
                      price_per_asset(filled_order, other_side[i]))

process_trade(m, filled_order, other_side) ==
    TradeFrom(m, filled_order, other_side, 1, <<>>)

\* fill_order --------------------------------------------------------------
RECURSIVE SumQuantity(_)
SumQuantity(orders) ==
    IF orders = <<>> THEN 0 ELSE Head(orders).quantity + SumQuantity(Tail(orders))

\* if let Some(o) = add_after_trade: a sequence holds the order of Some(o) and
\* is empty for None.
fill_order_traded(traded, add_after_trade) ==
    IF traded.err # "Ok" THEN traded
    ELSE IF add_after_trade = <<>> THEN traded
    ELSE WithTrades(Market_add_order(traded.m, add_after_trade[1], FALSE),
                    traded.trades)

fill_order_trade(m, filled_order, candidates, add_after_trade) ==
    fill_order_traded(process_trade(m, filled_order, candidates), add_after_trade)

\* Mutant: the last candidate is split into (filled, remainder).
fill_order_split_last_swapped(m, order, candidates, s) ==
    IF s.err # "Ok" THEN Res(s.err, m)
    ELSE fill_order_trade(m, order,
             Append(SubSeq(candidates, 1, Len(candidates) - 1), s.left), <<s.right>>)

\* fill_sum > order.quantity: (remainder, filled) of the last candidate.
fill_order_split_last(m, order, candidates, s) ==
    IF s.err # "Ok" THEN Res(s.err, m)
    ELSE fill_order_trade(m, order,
             Append(SubSeq(candidates, 1, Len(candidates) - 1), s.right), <<s.left>>)

\* fill_sum < order.quantity: (filled, remainder) of the incoming order.
fill_order_split_incoming(m, order, candidates, s) ==
    IF s.err # "Ok" THEN Res(s.err, m)
    ELSE fill_order_trade(m, s.left, candidates, <<s.right>>)

fill_order_summed(m, order, candidates, fill_sum) ==
    IF fill_sum > order.quantity
    THEN fill_order_split_last(m, order, candidates,
             split(candidates[Len(candidates)], fill_sum - order.quantity))
    ELSE IF fill_sum < order.quantity
    THEN fill_order_split_incoming(m, order, candidates, split(order, fill_sum))
    ELSE fill_order_trade(m, order, candidates, <<>>)

fill_order_then(m, order, candidates) ==
    IF candidates = <<>> THEN Market_add_order(m, order, TRUE)
    ELSE fill_order_summed(m, order, candidates, SumQuantity(candidates))

fill_order(m, order) ==
    IF order.asset \notin DOMAIN m.books THEN Res("AssetNotFound", m)
    ELSE fill_order_then(m, order,
             find_best_candidates_to_fill(m.books[order.asset], order))

\* cancel_order ------------------------------------------------------------
cancel_order_unlocked(m, portfolio_id, order, unlocked) ==
    IF unlocked.err # "Ok" THEN Res(unlocked.err, m)
    ELSE IF order.side = "Sell"
    THEN Res("Ok", [m EXCEPT
             !.portfolios[portfolio_id].assets[order.asset] = unlocked.acc,
             !.books[order.asset] = Book_remove_order(@, order.id)])
    ELSE Res("Ok", [m EXCEPT
             !.portfolios[portfolio_id].coins = unlocked.acc,
             !.books[order.asset] = Book_remove_order(@, order.id)])

\* Mutant: a Buy order's cancel unlocks its quantity, not limit * quantity.
cancel_order_found_unlocks_quantity(m, portfolio_id, asset_id, found) ==
    IF found.err # "Ok" THEN Res(found.err, m)
    ELSE IF found.order.asset # asset_id THEN Res("InvalidAssetId", m)
    ELSE IF portfolio_id \notin DOMAIN m.portfolios THEN Res("PortfolioNotFound", m)
    ELSE IF found.order.mode.kind = "Best" THEN Res("Panic", m)
    ELSE IF found.order.side = "Buy"
    THEN cancel_order_unlocked(m, portfolio_id, found.order,
             unlock_amount(m.portfolios[portfolio_id].coins, found.order.quantity))
    ELSE IF found.order.asset \notin DOMAIN m.portfolios[portfolio_id].assets
    THEN Res("AssetNotFound", m)
    ELSE cancel_order_unlocked(m, portfolio_id, found.order,
             unlock_amount(m.portfolios[portfolio_id].assets[found.order.asset],
                           found.order.quantity))

cancel_order_found(m, portfolio_id, asset_id, found) ==
    IF found.err # "Ok" THEN Res(found.err, m)
    ELSE IF found.order.asset # asset_id THEN Res("InvalidAssetId", m)
    ELSE IF portfolio_id \notin DOMAIN m.portfolios THEN Res("PortfolioNotFound", m)
    ELSE IF found.order.mode.kind = "Best" THEN Res("Panic", m)
    ELSE IF found.order.side = "Buy"
    THEN cancel_order_unlocked(m, portfolio_id, found.order,
             unlock_amount(m.portfolios[portfolio_id].coins,
                           found.order.mode.limit * found.order.quantity))
    ELSE IF found.order.asset \notin DOMAIN m.portfolios[portfolio_id].assets
    THEN Res("AssetNotFound", m)
    ELSE cancel_order_unlocked(m, portfolio_id, found.order,
             unlock_amount(m.portfolios[portfolio_id].assets[found.order.asset],
                           found.order.quantity))

cancel_order(m, portfolio_id, order_id, asset_id) ==
    IF asset_id \notin DOMAIN m.books THEN Res("AssetNotFound", m)
    ELSE cancel_order_found(m, portfolio_id, asset_id,
                            Book_get_order(m.books[asset_id], order_id))

\* --------------------------------------------------------------- Engine
\* An event is Event::Order(order) or Event::CancelOrder(portfolio, order_id,
\* asset); the fields the variant lacks hold NoOrder and the order's own.
OrderEvent(o) ==
    [type |-> "Order", order |-> o, portfolio |-> o.portfolio, order_id |-> o.id,
     asset |-> o.asset]
CancelEvent(portfolio, order_id, asset) ==
    [type |-> "CancelOrder", order |-> NoOrder, portfolio |-> portfolio,
     order_id |-> order_id, asset |-> asset]

\* Mutant: an Order event bills the fee to the first portfolio of the market.
bill_fee_for_first(m, event) ==
    bill_fee(m, IF event.type = "Order" THEN PortfolioIds[1] ELSE event.portfolio,
             Fee)

bill_fee_for(m, event) ==
    bill_fee(m, IF event.type = "Order" THEN event.order.portfolio ELSE event.portfolio,
             Fee)

\* if result.is_err() { self.market = snapshot }. A panic unwinds past the
\* restore and leaves the market as it stands.
\* Mutant: the snapshot is not restored after a failed dispatch.
process_result_keeps(snapshot, result) == result

process_result(snapshot, result) ==
    IF result.err = "Panic" THEN result
    ELSE IF result.err # "Ok" THEN Res(result.err, snapshot)
    ELSE result

\* The snapshot is the clone of the market that has paid the fee.
process_billed(event, billed) ==
    IF billed.err # "Ok" THEN billed
    ELSE process_result(billed.m,
             IF event.type = "Order" THEN fill_order(billed.m, event.order)
             ELSE cancel_order(billed.m, event.portfolio, event.order_id, event.asset))

process(m, event) == process_billed(event, bill_fee_for(m, event))

\* ----------------------------------------------------------------- Game
\* id stands for the Uuid that Portfolio::new / Asset::new draws.
create_portfolio(m, id, initial_coins) ==
    LET portfolio == [Portfolio_new(id, initial_coins) EXCEPT
                         !.assets = [a \in m.assets |-> Account_new(0)]]
    IN [m EXCEPT !.portfolios = Put(@, id, portfolio)]

create_asset(m, id) ==
    [m EXCEPT !.assets = @ \cup {id},
              !.portfolios = [p \in DOMAIN @ |->
                                 [@[p] EXCEPT !.assets = Put(@, id, Account_new(0))]],
              !.books = Put(@, id, Book_new(id))]

\* Both lookups are unwrapped: the caller names an existing portfolio and asset.
set_asset_amount(m, portfolio, asset, amount) ==
    [m EXCEPT !.portfolios[portfolio].assets[asset] = Account_add(@, amount)]

\* ---------------------------------------------------------------- state
VARIABLES
    market,     \* Engine.market
    main_pc,    \* calls main has made to build the market
    started,    \* start_server is serving requests
    poisoned,   \* a panic under the write guard has poisoned Game.engine
    clock,      \* orders minted so far: the next Uuid and the next Instant
    nevents,    \* requests served so far
    last,       \* history: the last request and its outcome
    trip,       \* history: a placement that rested untraded, and its cancel
    rwlock,     \* Game.engine's RwLock: the thread that writes, those that read
    pc,         \* where each request thread stands in its handler
    req,        \* the event each request thread has built
    snapshot,   \* the local snapshot of the thread inside Engine::process
    seen,       \* what each read query found in the market
    serial,     \* history: the events processed whole, in write-lock order
    call,       \* a call of a function of models.rs on its own: its arguments
    ret         \* what that call returned

lockvars == <<rwlock, pc, req, snapshot, seen, serial>>
callvars == <<call, ret>>

vars == <<market, main_pc, started, poisoned, clock, nevents, last, trip,
          rwlock, pc, req, snapshot, seen, serial, call, ret>>

\* The request threads of the lock-level specification.
Writers == {"w1", "w2"}
Readers == {"r1"}

\* No request is in flight: the lock is free and every thread is idle.
LockIdle ==
    /\ rwlock = [writer |-> "none", readers |-> {}]
    /\ pc = [t \in Writers \cup Readers |-> "idle"]
    /\ req = [t \in Writers |-> CancelEvent("none", 0, "none")]
    /\ snapshot = Market_new
    /\ seen = [t \in Readers |-> Market_new]
    /\ serial = Market_new

\* type: the handler; portfolio: the portfolio the request names; result: the
\* handler's answer; order: the order placed or cancelled by a request that
\* succeeded; trades: the exchanges made; mode: the kind of the order's mode;
\* candidates: how many candidates fill_order found, -1 if it never looked.
Last(type, portfolio, result, order, trades, mode, candidates) ==
    [type |-> type, portfolio |-> portfolio, result |-> result, order |-> order,
     trades |-> trades, mode |-> mode, candidates |-> candidates]

Setup(type) == Last(type, "none", "none", NoOrder, <<>>, "none", -1)

\* No function is called on its own.
NotReturned == [err |-> "none", left |-> NoOrder, right |-> NoOrder]
NoCall ==
    /\ call = [self |-> NoOrder, split_quantity |-> 0]
    /\ ret = NotReturned

\* stage 1: the last request placed order id, which rests without having
\* traded, on the market m0; stage 2: its owner's cancel followed at once.
NoTrip == [stage |-> 0, m0 |-> Market_new, id |-> 0]

Init ==
    /\ market = Market_new
    /\ main_pc = 0
    /\ started = FALSE
    /\ poisoned = FALSE
    /\ clock = 0
    /\ nevents = 0
    /\ last = Setup("none")
    /\ trip = NoTrip
    /\ LockIdle
    /\ NoCall

Quantities == 0..MaxQuantity
Modes == {Best} \cup {Limit(l) : l \in 0..MaxLimit}
AllPortfolios == Range(PortfolioIds)
AllAssets == Range(AssetIds)

\* main, before start_server: two portfolios, two assets, then a holding of
\* the asset created last for each portfolio. main_pc counts the calls made.
CreatePortfolio ==
    /\ ~started
    /\ main_pc < Len(PortfolioIds)
    /\ market' = create_portfolio(market, PortfolioIds[main_pc + 1], InitialCoins)
    /\ main_pc' = main_pc + 1
    /\ last' = Setup("create_portfolio")
    /\ UNCHANGED <<started, poisoned, clock, nevents, trip, lockvars, callvars>>

CreateAsset ==
    /\ ~started
    /\ main_pc >= Len(PortfolioIds)
    /\ main_pc < Len(PortfolioIds) + Len(AssetIds)
    /\ market' = create_asset(market, AssetIds[main_pc - Len(PortfolioIds) + 1])
    /\ main_pc' = main_pc + 1
    /\ last' = Setup("create_asset")
    /\ UNCHANGED <<started, poisoned, clock, nevents, trip, lockvars, callvars>>

SetAssetAmount ==
    /\ ~started
    /\ main_pc >= Len(PortfolioIds) + Len(AssetIds)
    /\ main_pc < 2 * Len(PortfolioIds) + Len(AssetIds)
    /\ market' = set_asset_amount(market,
                     PortfolioIds[main_pc - Len(PortfolioIds) - Len(AssetIds) + 1],
                     AssetIds[Len(AssetIds)], InitialAssets)
    /\ main_pc' = main_pc + 1
    /\ last' = Setup("set_asset_amount")
    /\ UNCHANGED <<started, poisoned, clock, nevents, trip, lockvars, callvars>>

\* The server may start on a market that a shorter main has built.
StartServer ==
    /\ ~started
    /\ started' = TRUE
    /\ last' = Setup("start_server")
    /\ UNCHANGED <<market, main_pc, poisoned, clock, nevents, trip, lockvars, callvars>>

\* the request handlers of server.rs -------------------------------------
\* write_engine()?.process(event): a poisoned lock answers EngineWasTooBusy.
Locked_process(event) ==
    IF poisoned THEN Res("EngineWasTooBusy", market) ELSE process(market, event)

\* What fill_order finds for the order of a request that reaches it, -1 when
\* the request fails before fill_order looks.
CandidateCount(order) ==
    IF /\ ~poisoned
       /\ bill_fee_for(market, OrderEvent(order)).err = "Ok"
       /\ order.asset \in DOMAIN market.books
    THEN Len(find_best_candidates_to_fill(market.books[order.asset], order))
    ELSE -1

Served(type, portfolio, mode, order, r, candidates) ==
    /\ clock' = clock + 1
    /\ market' = r.m
    /\ poisoned' = (poisoned \/ r.err = "Panic")
    /\ last' = Last(type, portfolio, r.err,
                    IF r.err = "Ok" THEN order ELSE NoOrder, r.trades, mode.kind,
                    candidates)
    /\ trip' = IF r.err = "Ok" /\ r.trades = <<>>
               THEN [stage |-> 1, m0 |-> market, id |-> order.id]
               ELSE NoTrip

Minted(type, portfolio, mode, n) ==
    /\ nevents' = nevents + 1
    /\ IF n.err # "Ok"
       THEN /\ last' = Last(type, portfolio, n.err, NoOrder, <<>>, mode.kind, -1)
            /\ trip' = NoTrip
            /\ UNCHANGED <<market, poisoned, clock>>
       ELSE Served(type, portfolio, mode, n.order,
                   Locked_process(OrderEvent(n.order)), CandidateCount(n.order))
    /\ UNCHANGED <<main_pc, started, lockvars, callvars>>

\* sell_order and buy_order: Order::new, then process under the write lock.
PlaceOrder(type, side, portfolio, asset, quantity, mode) ==
    Minted(type, portfolio, mode,
           Order_new(portfolio, asset, side, quantity, mode,
                     clock + 1 + Expiry, clock + 1, clock + 1))

SellOrder ==
    /\ started
    /\ nevents < MaxEvents
    /\ \E p \in AllPortfolios, a \in AllAssets, q \in Quantities, mode \in Modes :
           PlaceOrder("sell_order", "Sell", p, a, q, mode)

BuyOrder ==
    /\ started
    /\ nevents < MaxEvents
    /\ \E p \in AllPortfolios, a \in AllAssets, q \in Quantities, mode \in Modes :
           PlaceOrder("buy_order", "Buy", p, a, q, mode)

\* The order a cancel request names, as it rests in the book of the asset.
Resting(m, asset, order_id) ==
    IF asset \in DOMAIN m.books THEN Book_get_order(m.books[asset], order_id).order
    ELSE NoOrder

Cancelled(p, o, order, r) ==
    /\ nevents' = nevents + 1
    /\ market' = r.m
    /\ poisoned' = (poisoned \/ r.err = "Panic")
    /\ last' = Last("cancel_order", p, r.err,
                    IF r.err = "Ok" THEN order ELSE NoOrder, <<>>, "none", -1)
    /\ trip' = IF /\ trip.stage = 1
                  /\ r.err = "Ok"
                  /\ o = trip.id
                  /\ p = order.portfolio
               THEN [trip EXCEPT !.stage = 2]
               ELSE NoTrip
    /\ UNCHANGED <<main_pc, started, clock, lockvars, callvars>>

\* cancel_order: the request names any portfolio, asset and order id.
CancelOrder ==
    /\ started
    /\ nevents < MaxEvents
    /\ \E p \in AllPortfolios, a \in AllAssets, o \in 1..MaxEvents :
           Cancelled(p, o, Resting(market, a, o), Locked_process(CancelEvent(p, o, a)))

Next ==
    \/ CreatePortfolio
    \/ CreateAsset
    \/ SetAssetAmount
    \/ StartServer
    \/ SellOrder
    \/ BuyOrder
    \/ CancelOrder

Spec == Init /\ [][Next]_vars

\* ------------------------------------------------------------ measures
RECURSIVE SumOf(_, _)
\* The sum of f[x] over the set of keys.
SumOf(f, keys) ==
    IF keys = {} THEN 0
    ELSE LET k == CHOOSE x \in keys : TRUE
         IN f[k] + SumOf(f, keys \ {k})

\* Coins in all portfolios and in the bank.
TotalCoins(m) ==
    m.bank_account
    + SumOf([p \in DOMAIN m.portfolios |-> m.portfolios[p].coins.total_amount],
            DOMAIN m.portfolios)

\* Units of asset a in all portfolios.
TotalAsset(m, a) ==
    SumOf([p \in DOMAIN m.portfolios |->
              IF a \in DOMAIN m.portfolios[p].assets
              THEN m.portfolios[p].assets[a].total_amount ELSE 0],
          DOMAIN m.portfolios)

\* The orders resting on either side of the book of asset a.
RestingOn(m, a) == Range(m.books[a].sell_orders) \cup Range(m.books[a].buy_orders)

RestingOrders(m) == UNION {RestingOn(m, a) : a \in DOMAIN m.books}

\* What Market::add_order locks for a resting order.
CoinsOwed(o) == IF o.side = "Buy" THEN o.mode.limit * o.quantity ELSE 0
UnitsOwed(o, a) == IF o.side = "Sell" /\ o.asset = a THEN o.quantity ELSE 0

OwnedBy(m, p) == {o \in RestingOrders(m) : o.portfolio = p}

\* A request has been served in this step.
Request == nevents' = nevents + 1

Accounts(m) ==
    {m.portfolios[p].coins : p \in DOMAIN m.portfolios}
    \cup {m.portfolios[p].assets[a] : p \in DOMAIN m.portfolios, a \in m.assets}

\* --------------------------------------------------------------- claims

\* C1. Atomicity of Engine::process: a request whose processing returns an
\* error leaves the whole market (bank_account, every account, every book) as
\* it was before the request; the fee is not kept.
C1_Atomicity ==
    [][(Request /\ last'.result # "Ok") => market' = market]_vars

\* C2. Lock backing: in every state, each portfolio's locked units of an asset
\* are at least the quantities of its resting Sell orders on the asset, and its
\* locked coins are at least the sum of limit * quantity over its resting Buy
\* orders.
C2_LockBacking ==
    \A p \in DOMAIN market.portfolios :
        /\ market.portfolios[p].coins.locked_amount >=
               SumOf([o \in OwnedBy(market, p) |-> CoinsOwed(o)], OwnedBy(market, p))
        /\ \A a \in market.assets :
               market.portfolios[p].assets[a].locked_amount >=
                   SumOf([o \in OwnedBy(market, p) |-> UnitsOwed(o, a)],
                         OwnedBy(market, p))

\* C3. Coin conservation: a request that succeeds leaves the sum of all
\* portfolios' coins.total plus bank_account as it was.
C3_CoinConservation ==
    [][(Request /\ last'.result = "Ok") => TotalCoins(market') = TotalCoins(market)]_vars

\* A request succeeded with a trade that paid coins to another portfolio.
C3_Witness ==
    /\ last.result = "Ok"
    /\ \E i \in 1..Len(last.trades) :
           /\ last.trades[i].buyer # last.trades[i].seller
           /\ last.trades[i].price * last.trades[i].quantity > 0

\* C4. Asset conservation: every request, failed or not, leaves the sum over
\* all portfolios of assets[a].total as it was, for every asset a.
C4_AssetConservation ==
    [][Request => \A a \in AllAssets : TotalAsset(market', a) = TotalAsset(market, a)]_vars

\* A trade has delivered units of an asset to another portfolio, which now
\* holds more than main gave it.
C4_Witness ==
    \E i \in 1..Len(last.trades) :
        /\ last.trades[i].buyer # last.trades[i].seller
        /\ market.portfolios[last.trades[i].buyer].assets[last.trades[i].asset].total_amount
               > InitialAssets

AccountOk(acc) == 0 <= acc.locked_amount /\ acc.locked_amount <= acc.total_amount

KeepsOrRefuses(acc, r) ==
    /\ r.err \in {"Ok", "InsufficientFreeAmount", "InsufficientLockedAmount"}
    /\ r.err = "Ok" => AccountOk(r.acc) /\ r.acc.total_amount >= 0
    /\ r.err # "Ok" => r.acc = acc

\* C5. Account invariant: every account has locked_amount <= total_amount; on
\* every account the program reaches, lock, unlock, spend_from_free and
\* spend_from_locked either keep that or fail with InsufficientFreeAmount /
\* InsufficientLockedAmount and leave the account as it was; no subtraction
\* goes below zero and no debug assertion fires (nothing panics).
C5_AccountInvariant ==
    /\ ~poisoned
    /\ last.result # "Panic"
    /\ \A acc \in Accounts(market) :
           /\ AccountOk(acc)
           /\ \A n \in 0..(acc.total_amount + 1) :
                  /\ KeepsOrRefuses(acc, lock_amount(acc, n))
                  /\ KeepsOrRefuses(acc, unlock_amount(acc, n))
                  /\ KeepsOrRefuses(acc, spend_from_free_amount(acc, n))
                  /\ KeepsOrRefuses(acc, spend_from_locked_amount(acc, n))

\* A request was refused for want of locked funds while funds are locked.
C5_Witness ==
    /\ last.result = "InsufficientLockedAmount"
    /\ \E acc \in Accounts(market) : acc.locked_amount > 0

BuysBestFirst(orders) ==
    \A i, j \in 1..Len(orders) :
        i < j => \/ orders[i].mode.limit > orders[j].mode.limit
                 \/ /\ orders[i].mode.limit = orders[j].mode.limit
                    /\ orders[i].created_at <= orders[j].created_at

SellsBestFirst(orders) ==
    \A i, j \in 1..Len(orders) :
        i < j => \/ orders[i].mode.limit < orders[j].mode.limit
                 \/ /\ orders[i].mode.limit = orders[j].mode.limit
                    /\ orders[i].created_at <= orders[j].created_at

\* C6. Book ordering: in every book buy_orders runs from the highest limit to
\* the lowest, sell_orders from the lowest to the highest, and orders of equal
\* limit run from the earliest created_at to the latest.
C6_BookOrdering ==
    \A a \in DOMAIN market.books :
        /\ BuysBestFirst(market.books[a].buy_orders)
        /\ SellsBestFirst(market.books[a].sell_orders)

\* C7. No Best order rests: no book holds an order of mode Best on either side.
C7_NoBestRests ==
    \A o \in RestingOrders(market) : o.mode.kind # "Best"

\* A Best order found candidates, too few to fill it, and was refused.
C7_Witness ==
    /\ last.mode = "Best"
    /\ last.candidates > 0
    /\ last.result = "NotEnoughMatchingOrdersToImmediatelyFillBestOrder"

\* C8. Bank counter: a request that succeeds adds exactly 1 coin to
\* bank_account and a request that fails adds nothing, so that bank_account
\* counts the requests that succeeded.
C8_BankCounter ==
    [][Request => market'.bank_account =
                      market.bank_account + (IF last'.result = "Ok" THEN 1 ELSE 0)]_vars

\* C9. Cancel after place: when a portfolio places a Limit order that rests
\* without trading and cancels it in the next request, both succeeding, the
\* market is the one before the placement (locked amounts, asset totals and
\* books included) but for 2 coins that have gone from the portfolio to the
\* bank.
C9_CancelAfterPlace ==
    trip.stage = 2 =>
        market = [trip.m0 EXCEPT
                     !.bank_account = @ + 2,
                     !.portfolios[last.portfolio].coins.total_amount = @ - 2]

\* The round trip has happened for a Buy order that locked more coins than
\* its quantity.
C9_Witness ==
    /\ trip.stage = 2
    /\ last.order.side = "Buy"
    /\ last.order.mode.limit > 1

\* C10. A Best order for which fill_order finds no candidates fails with
\* NotEnoughMatchingOrdersToImmediatelyFillBestOrder.
C10_BestWithoutLiquidity ==
    (last.type \in {"sell_order", "buy_order"} /\ last.mode = "Best"
        /\ last.candidates = 0)
    => last.result = "NotEnoughMatchingOrdersToImmediatelyFillBestOrder"

\* ------------------------------------------------- the events to come
Sides == {"Sell", "Buy"}

\* The states in which the claims below examine every event the server can
\* process next: every state in which the model serves another request and,
\* one request further, every state that a request that succeeded has left.
Serving == started /\ (nevents < MaxEvents \/ last.result = "Ok")

\* The order a sell_order or buy_order request mints in this state.
NewOrder(p, a, s, q, mode) ==
    Order_new(p, a, s, q, mode, clock + 1 + Expiry, clock + 1, clock + 1).order

\* The side of the book that find_best_candidates_to_fill walks for an order
\* of the given side.
OtherSide(book, side) ==
    IF side = "Sell" THEN book.buy_orders ELSE book.sell_orders

\* P holds of every order of the given modes that a request can mint in this
\* state and that finds orders on the other side of its book in market m: no
\* other order has candidates.
ForEachTaker(m, modes, P(_)) ==
    \A a \in DOMAIN m.books, s \in Sides :
        OtherSide(m.books[a], s) # <<>> =>
            \A p \in AllPortfolios, q \in 1..MaxQuantity, mode \in modes \ {Limit(0)} :
                P(NewOrder(p, a, s, q, mode))

\* P holds of every event the server can process in this state.
ForEachEvent(P(_)) ==
    /\ \A p \in AllPortfolios, a \in AllAssets, s \in Sides, q \in 1..MaxQuantity,
          mode \in Modes \ {Limit(0)} :
           P(OrderEvent(NewOrder(p, a, s, q, mode)))
    /\ \A p \in AllPortfolios, o \in 1..MaxEvents, a \in AllAssets :
           P(CancelEvent(p, o, a))

\* The candidates fill_order finds for order o in market m.
CandidatesOf(m, o) ==
    IF o.asset \in DOMAIN m.books
    THEN find_best_candidates_to_fill(m.books[o.asset], o)
    ELSE <<>>

\* Books, asset accounts and locked coins of m2 are those of m1.
SameButCoinTotals(m1, m2) ==
    /\ m2.books = m1.books
    /\ DOMAIN m2.portfolios = DOMAIN m1.portfolios
    /\ \A p \in DOMAIN m1.portfolios :
           /\ m2.portfolios[p].assets = m1.portfolios[p].assets
           /\ m2.portfolios[p].coins.locked_amount = m1.portfolios[p].coins.locked_amount

\* Order o is a Best order whose candidates (at least one) fill less than its
\* quantity.
BestShort(m, o) ==
    /\ o.mode.kind = "Best"
    /\ CandidatesOf(m, o) # <<>>
    /\ SumQuantity(CandidatesOf(m, o)) < o.quantity

BestRefused(m, r) ==
    /\ r.err = "NotEnoughMatchingOrdersToImmediatelyFillBestOrder"
    /\ SameButCoinTotals(m, r.m)

\* C11 as stated. A Best order whose candidates fill less than its quantity
\* fails with NotEnoughMatchingOrdersToImmediatelyFillBestOrder, and books,
\* asset accounts and locked amounts are as before the event.
C11_BestNeverPartiallyFills ==
    [](Serving =>
        ForEachTaker(market, {Best},
            LAMBDA o : BestShort(market, o)
                           => BestRefused(market, process(market, OrderEvent(o)))))

\* The outcome of the short Best order o: billed is the fee's billing, traded
\* the settlement of the filled part against the candidates, r the event's.
BestShortOutcome(m, o, billed, traded, r) ==
    /\ r.err \notin {"Ok", "Panic"}
    /\ SameButCoinTotals(m, r.m)
    /\ billed.err # "Ok" => r.err = billed.err /\ r.m = m
    /\ billed.err = "Ok" /\ traded.err # "Ok" => r.err = traded.err
    /\ billed.err = "Ok" /\ traded.err = "Ok"
           => r.err = "NotEnoughMatchingOrdersToImmediatelyFillBestOrder"

BestShortBilled(m, o, billed) ==
    BestShortOutcome(m, o, billed,
        process_trade(billed.m, split(o, SumQuantity(CandidatesOf(m, o))).left,
                      CandidatesOf(m, o)),
        process(m, OrderEvent(o)))

\* C11, amended. A Best order whose candidates fill less than its quantity
\* fails, and books, asset accounts and locked amounts are as before the
\* event. The error is NotEnoughMatchingOrdersToImmediatelyFillBestOrder when
\* the fee is billed and every trade against a candidate settles; it is the
\* fee's error when the fee cannot be billed, and the settlement's error
\* (InsufficientFreeAmount, InsufficientLockedAmount) when a trade cannot be
\* settled.
C11_BestNeverFills ==
    [](Serving =>
        ForEachTaker(market, {Best},
            LAMBDA o : BestShort(market, o) =>
                BestShortBilled(market, o, bill_fee_for(market, OrderEvent(o)))))

\* A Best order that found too few candidates has been refused, and a
\* candidate it would have traded with still rests.
C11_Witness ==
    /\ last.mode = "Best"
    /\ last.candidates > 0
    /\ last.result = "NotEnoughMatchingOrdersToImmediatelyFillBestOrder"
    /\ RestingOrders(market) # {}
    /\ last.type = "buy_order"

\* ------------------------------------------- the lock-level specification
\* Each request runs on a thread of its own. A writer thread runs sell_order,
\* buy_order or cancel_order: it builds its event, takes the write guard of
\* Game.engine, and runs Engine::process statement by statement on the market
\* in place; the guard is a temporary of the statement that calls process and
\* drops when process has returned. A reader thread runs a read query under a
\* read guard.

\* The market main has built when it calls start_server.
MainMarket ==
    set_asset_amount(
        set_asset_amount(
            create_asset(
                create_asset(
                    create_portfolio(
                        create_portfolio(Market_new, PortfolioIds[1], InitialCoins),
                        PortfolioIds[2], InitialCoins),
                    AssetIds[1]),
                AssetIds[2]),
            PortfolioIds[1], AssetIds[2], InitialAssets),
        PortfolioIds[2], AssetIds[2], InitialAssets)

InitLock ==
    /\ market = MainMarket
    /\ main_pc = 2 * Len(PortfolioIds) + Len(AssetIds)
    /\ started = TRUE
    /\ poisoned = FALSE
    /\ clock = 0
    /\ nevents = 0
    /\ last = Setup("start_server")
    /\ trip = NoTrip
    /\ rwlock = [writer |-> "none", readers |-> {}]
    /\ pc = [t \in Writers \cup Readers |-> "idle"]
    /\ req = [t \in Writers |-> CancelEvent("none", 0, "none")]
    /\ snapshot = Market_new
    /\ seen = [t \in Readers |-> Market_new]
    /\ serial = MainMarket
    /\ NoCall

\* RwLock::write blocks while any guard is out.
\* Mutant: the write guard is granted while read guards are out.
can_write_beside_readers(lock) == lock.writer = "none"

can_write(lock) == lock.writer = "none" /\ lock.readers = {}

\* RwLock::read blocks while the write guard is out.
can_read(lock) == lock.writer = "none"

\* The match of Engine::process: the event's dispatch on the market in place.
dispatch(m, event) ==
    IF event.type = "Order" THEN fill_order(m, event.order)
    ELSE cancel_order(m, event.portfolio, event.order_id, event.asset)

Built(t, n) ==
    /\ clock' = clock + 1
    /\ IF n.err # "Ok"
       THEN /\ pc' = [pc EXCEPT ![t] = "done"]
            /\ UNCHANGED req
       ELSE /\ pc' = [pc EXCEPT ![t] = "write_engine"]
            /\ req' = [req EXCEPT ![t] = OrderEvent(n.order)]
    /\ UNCHANGED <<market, main_pc, started, poisoned, nevents, last, trip,
                   rwlock, snapshot, seen, serial, callvars>>

\* sell_order / buy_order up to Order::new, which runs before the lock.
HandleOrder(t) ==
    /\ pc[t] = "idle"
    /\ \E p \in AllPortfolios, a \in AllAssets, s \in Sides, q \in Quantities,
          mode \in Modes :
           Built(t, Order_new(p, a, s, q, mode, clock + 1 + Expiry, clock + 1,
                              clock + 1))

\* cancel_order: the event is built from the route's segments.
HandleCancel(t) ==
    /\ pc[t] = "idle"
    /\ \E p \in AllPortfolios, a \in AllAssets, o \in 1..Cardinality(Writers) :
           /\ req' = [req EXCEPT ![t] = CancelEvent(p, o, a)]
           /\ pc' = [pc EXCEPT ![t] = "write_engine"]
    /\ UNCHANGED <<market, main_pc, started, poisoned, clock, nevents, last, trip,
                   rwlock, snapshot, seen, serial, callvars>>

\* game.write_engine()?: a poisoned lock ends the request. serial processes
\* the event whole at the moment its thread is granted the guard.
WriteEngine(t) ==
    /\ pc[t] = "write_engine"
    /\ can_write(rwlock)
    /\ IF poisoned
       THEN /\ pc' = [pc EXCEPT ![t] = "done"]
            /\ UNCHANGED <<rwlock, serial>>
       ELSE /\ rwlock' = [rwlock EXCEPT !.writer = t]
            /\ pc' = [pc EXCEPT ![t] = "bill_fee_for"]
            /\ serial' = process(serial, req[t]).m
    /\ UNCHANGED <<market, main_pc, started, poisoned, clock, nevents, last, trip,
                   req, snapshot, seen, callvars>>

Billed(t, billed) ==
    /\ market' = billed.m
    /\ IF billed.err # "Ok"
       THEN /\ pc' = [pc EXCEPT ![t] = "drop"]
            /\ UNCHANGED snapshot
       ELSE /\ pc' = [pc EXCEPT ![t] = "dispatch"]
            /\ snapshot' = billed.m

\* self.bill_fee_for(event)?; let snapshot = self.market.clone();
ProcessBillFee(t) ==
    /\ pc[t] = "bill_fee_for"
    /\ Billed(t, bill_fee_for(market, req[t]))
    /\ UNCHANGED <<main_pc, started, poisoned, clock, nevents, last, trip,
                   rwlock, req, seen, serial, callvars>>

Dispatched(t, r) ==
    /\ market' = r.m
    /\ pc' = [pc EXCEPT ![t] = IF r.err = "Ok" THEN "drop"
                               ELSE IF r.err = "Panic" THEN "unwind"
                               ELSE "restore"]

\* let result = match event { .. }: the market is changed in place, and a
\* failed dispatch leaves what it had done before it failed.
ProcessDispatch(t) ==
    /\ pc[t] = "dispatch"
    /\ Dispatched(t, dispatch(market, req[t]))
    /\ UNCHANGED <<main_pc, started, poisoned, clock, nevents, last, trip,
                   rwlock, req, snapshot, seen, serial, callvars>>

\* if result.is_err() { self.market = snapshot; }
ProcessRestore(t) ==
    /\ pc[t] = "restore"
    /\ market' = snapshot
    /\ pc' = [pc EXCEPT ![t] = "drop"]
    /\ UNCHANGED <<main_pc, started, poisoned, clock, nevents, last, trip,
                   rwlock, req, snapshot, seen, serial, callvars>>

\* The write guard drops at the end of the handler's statement; dropped by
\* an unwinding panic it poisons the lock.
DropWriteGuard(t) ==
    /\ pc[t] \in {"drop", "unwind"}
    /\ rwlock' = [rwlock EXCEPT !.writer = "none"]
    /\ poisoned' = (poisoned \/ pc[t] = "unwind")
    /\ pc' = [pc EXCEPT ![t] = "done"]
    /\ UNCHANGED <<market, main_pc, started, clock, nevents, last, trip,
                   req, snapshot, seen, serial, callvars>>

\* game.read_engine()? of a read query.
ReadEngine(t) ==
    /\ pc[t] = "idle"
    /\ ~poisoned
    /\ can_read(rwlock)
    /\ rwlock' = [rwlock EXCEPT !.readers = @ \cup {t}]
    /\ pc' = [pc EXCEPT ![t] = "read"]
    /\ UNCHANGED <<market, main_pc, started, poisoned, clock, nevents, last, trip,
                   req, snapshot, seen, serial, callvars>>

\* The query reads the market under its read guard.
ReadMarket(t) ==
    /\ pc[t] = "read"
    /\ seen' = [seen EXCEPT ![t] = market]
    /\ pc' = [pc EXCEPT ![t] = "drop"]
    /\ UNCHANGED <<market, main_pc, started, poisoned, clock, nevents, last, trip,
                   rwlock, req, snapshot, serial, callvars>>

DropReadGuard(t) ==
    /\ pc[t] = "drop"
    /\ rwlock' = [rwlock EXCEPT !.readers = @ \ {t}]
    /\ pc' = [pc EXCEPT ![t] = "idle"]
    /\ UNCHANGED <<market, main_pc, started, poisoned, clock, nevents, last, trip,
                   req, snapshot, seen, serial, callvars>>

NextLock ==
    \/ \E t \in Writers : HandleOrder(t)
    \/ \E t \in Writers : HandleCancel(t)
    \/ \E t \in Writers : WriteEngine(t)
    \/ \E t \in Writers : ProcessBillFee(t)
    \/ \E t \in Writers : ProcessDispatch(t)
    \/ \E t \in Writers : ProcessRestore(t)
    \/ \E t \in Writers : DropWriteGuard(t)
    \/ \E t \in Readers : ReadEngine(t)
    \/ \E t \in Readers : ReadMarket(t)
    \/ \E t \in Readers : DropReadGuard(t)

SpecLock == InitLock /\ [][NextLock]_vars

\* The thread is inside Engine::process or about to drop its write guard.
InProcess(t) == pc[t] \in {"bill_fee_for", "dispatch", "restore", "drop", "unwind"}

\* C12. Serialized event processing: a thread is inside Engine::process only
\* while it holds the write guard, alone and with no read guard out; whenever
\* the write guard is free the market is the result of processing, one at a
\* time and whole, the events in the order their threads were granted the
\* guard; and that is the only market a read query finds.
C12_Serialized ==
    /\ \A t \in Writers : InProcess(t) => rwlock.writer = t /\ rwlock.readers = {}
    /\ rwlock.writer = "none" => market = serial
    /\ \A t \in Readers : pc[t] = "drop" => seen[t] = serial

\* Both writer threads have served their requests, each of which changed the
\* market, and a read query ran between the two.
C12_Witness ==
    /\ \A t \in Writers : pc[t] = "done"
    /\ market # MainMarket
    /\ \A t \in Readers : seen[t] \notin {Market_new, MainMarket, market}

\* Market m after exactly fee coins have gone from the free coins of portfolio
\* p to the bank.
FeePaid(m, p) ==
    [m EXCEPT !.bank_account = @ + Fee,
              !.portfolios[p].coins.total_amount = @ - Fee]

FeeBilling(m, p, billed, r) ==
    IF p \notin DOMAIN m.portfolios
    THEN r = Res("PortfolioNotFound", m)
    ELSE IF get_free_amount(m.portfolios[p].coins) = 0
    THEN r = Res("InsufficientFreeAmount", m)
    ELSE billed = Res("Ok", FeePaid(m, p))

\* C13. Fee billing: every event first moves exactly 1 coin from the free
\* coins of its initiator, and of no other portfolio, to bank_account; when
\* the initiator has no free coin the event fails with InsufficientFreeAmount,
\* when the initiator does not exist it fails with PortfolioNotFound, and in
\* both cases nothing is dispatched and the market is unchanged.
C13_FeeBilling ==
    [](Serving =>
        ForEachEvent(
            LAMBDA ev : FeeBilling(market, ev.portfolio, bill_fee_for(market, ev),
                                   process(market, ev))))

\* A request has been refused at the fee: its initiator's coins are all
\* locked.
C13_Witness ==
    /\ last.result = "InsufficientFreeAmount"
    /\ last.candidates = -1
    /\ last.portfolio \in DOMAIN market.portfolios
    /\ get_free_amount(market.portfolios[last.portfolio].coins) = 0
    /\ market.portfolios[last.portfolio].coins.locked_amount > 0

\* ------------------------------------------------------------ settlement
\* Account acc with its total changed by dt and its locked amount by dl.
Shifted(acc, dt, dl) ==
    [total_amount |-> acc.total_amount + dt, locked_amount |-> acc.locked_amount + dl]

ShiftAsset(ps, p, a, dt, dl) == [ps EXCEPT ![p].assets[a] = Shifted(@, dt, dl)]

ShiftCoins(ps, p, dt, dl) == [ps EXCEPT ![p].coins = Shifted(@, dt, dl)]

\* The units of candidate i that an incoming order of quantity q takes: all
\* of them, but for a last candidate that is larger than what is left to fill.
TradedQuantity(c, i, q) ==
    IF i = Len(c) /\ SumQuantity(c) > q
    THEN c[i].quantity - (SumQuantity(c) - q)
    ELSE c[i].quantity

\* The price of a match: the incoming order's limit, the resting order's when
\* the incoming order is Best.
SettlePrice(o, other) ==
    IF o.mode.kind = "Limit" THEN o.mode.limit ELSE other.mode.limit

\* The portfolios ps after n units of incoming order o are settled against the
\* resting order other at the given price: the units go from the seller to the
\* buyer and price * n coins from the buyer to the seller; the resting order's
\* owner gives from its locked balance, the incoming order's from its free one.
SettleOne(ps, o, other, n, price) ==
    IF o.side = "Buy"
    THEN ShiftCoins(
             ShiftCoins(
                 ShiftAsset(
                     ShiftAsset(ps, other.portfolio, o.asset, -n, -n),
                     o.portfolio, o.asset, n, 0),
                 o.portfolio, -(price * n), 0),
             other.portfolio, price * n, 0)
    ELSE ShiftCoins(
             ShiftCoins(
                 ShiftAsset(
                     ShiftAsset(ps, o.portfolio, o.asset, -n, 0),
                     other.portfolio, o.asset, n, 0),
                 other.portfolio, -(price * n), -(price * n)),
             o.portfolio, price * n, 0)

RECURSIVE SettleFrom(_, _, _, _)
SettleFrom(ps, o, c, i) ==
    IF i > Len(c) THEN ps
    ELSE SettleFrom(
             SettleOne(ps, o, c[i], TradedQuantity(c, i, o.quantity),
                       SettlePrice(o, c[i])),
             o, c, i + 1)

\* Portfolios got are the portfolios want in every total, and in every locked
\* amount but those of portfolio p, which are not below.
SettledAs(got, want, p) ==
    /\ DOMAIN got = DOMAIN want
    /\ \A q \in DOMAIN want :
           /\ got[q].coins.total_amount = want[q].coins.total_amount
           /\ DOMAIN got[q].assets = DOMAIN want[q].assets
           /\ \A a \in DOMAIN want[q].assets :
                  got[q].assets[a].total_amount = want[q].assets[a].total_amount
           /\ IF q = p
              THEN /\ got[q].coins.locked_amount >= want[q].coins.locked_amount
                   /\ \A a \in DOMAIN want[q].assets :
                          got[q].assets[a].locked_amount >= want[q].assets[a].locked_amount
              ELSE /\ got[q].coins.locked_amount = want[q].coins.locked_amount
                   /\ \A a \in DOMAIN want[q].assets :
                          got[q].assets[a].locked_amount = want[q].assets[a].locked_amount

Settlement(m, o, c, r) ==
    (c # <<>> /\ r.err = "Ok") =>
        SettledAs(r.m.portfolios,
                  SettleFrom(FeePaid(m, o.portfolio).portfolios, o, c, 1),
                  o.portfolio)

\* C14. Settlement of a match: an order event that succeeds moves, for each of
\* its candidates, the units traded from the seller to the buyer and price
\* times as many coins from the buyer to the seller, the price being the
\* incoming order's limit, or the resting order's when the incoming order is
\* Best; the resting order's owner pays or delivers out of its locked balance
\* and the incoming order's owner out of its free balance; apart from the fee
\* no other total and no other portfolio's locked amount changes.
C14_Settlement ==
    [](Serving =>
        ForEachTaker(market, Modes,
            LAMBDA o : Settlement(market, o, CandidatesOf(market, o),
                                  process(market, OrderEvent(o)))))

\* A Best order has traded with another portfolio's resting order at that
\* order's limit, above 1.
C14_Witness ==
    /\ last.result = "Ok"
    /\ last.mode = "Best"
    /\ Len(last.trades) > 0
    /\ last.trades[1].buyer # last.trades[1].seller
    /\ last.trades[1].price > 1
    /\ last.trades[1].price = last.trades[1].other.mode.limit

\* ------------------------------------------------------------ remainders
\* The ids of the orders resting in the book of asset a.
RestingIds(m, a) == {x.id : x \in RestingOn(m, a)}

\* The locked amount that backs order o in portfolios ps: assets for a Sell,
\* coins for a Buy.
LockedFor(ps, o) ==
    IF o.side = "Sell" THEN ps[o.portfolio].assets[o.asset].locked_amount
    ELSE ps[o.portfolio].coins.locked_amount

\* What Market::add_order locks for n units of order o.
LockOf(o, n) == IF o.side = "Sell" THEN n ELSE o.mode.limit * n

RemainderRestsLocked(m, o, c, r) ==
    (o.mode.kind = "Limit" /\ c # <<>> /\ SumQuantity(c) < o.quantity /\ r.err = "Ok")
    => /\ \A i \in 1..Len(c) : c[i].id \notin RestingIds(r.m, o.asset)
       /\ [o EXCEPT !.quantity = o.quantity - SumQuantity(c)] \in RestingOn(r.m, o.asset)
       /\ LockedFor(r.m.portfolios, o) =
              LockedFor(SettleFrom(FeePaid(m, o.portfolio).portfolios, o, c, 1), o)
              + LockOf(o, o.quantity - SumQuantity(c))

\* C15. Incoming remainder rests locked: when a Limit order of quantity n
\* matches candidates of total quantity m < n and the event succeeds, every
\* candidate has left the book, and the remainder of quantity n - m rests
\* with its owner's funds locked for it by the event: n - m more locked units
\* for a Sell, p * (n - m) more locked coins for a Buy Limit(p).
C15_RemainderRestsLocked ==
    [](Serving =>
        ForEachTaker(market, Modes,
            LAMBDA o : RemainderRestsLocked(market, o, CandidatesOf(market, o),
                                            process(market, OrderEvent(o)))))

\* The orders of id resting on the side of order x in the book of its asset.
RestingAs(m, x) ==
    SelectSeq(IF x.side = "Sell" THEN m.books[x.asset].sell_orders
              ELSE m.books[x.asset].buy_orders,
              LAMBDA y : y.id = x.id)

SplitAndRequeue(m, o, c, r) ==
    (c # <<>> /\ SumQuantity(c) > o.quantity /\ r.err = "Ok")
    => /\ o.id \notin RestingIds(r.m, o.asset)
       /\ \A i \in 1..(Len(c) - 1) : c[i].id \notin RestingIds(r.m, o.asset)
       /\ RestingAs(r.m, c[Len(c)]) =
              <<[c[Len(c)] EXCEPT !.quantity = SumQuantity(c) - o.quantity]>>
       /\ r.m.portfolios = SettleFrom(FeePaid(m, o.portfolio).portfolios, o, c, 1)

\* C16. Split and requeue of an oversized last candidate: when the candidates'
\* total quantity m exceeds the incoming quantity n and the event succeeds,
\* the incoming order does not rest, every candidate but the last has left
\* the book, and the last candidate rests once, as it was but for its
\* quantity, now m - n; the portfolios are those the settlement of the filled
\* quantities leaves, so that the candidate's owner has lost from its locked
\* balance only what it delivered and nothing was locked for the requeued
\* part.
C16_SplitAndRequeue ==
    [](Serving =>
        ForEachTaker(market, Modes,
            LAMBDA o : SplitAndRequeue(market, o, CandidatesOf(market, o),
                                       process(market, OrderEvent(o)))))

\* An order has been filled by part of a resting order, whose rest is still
\* in the book under its id.
C16_Witness ==
    /\ last.result = "Ok"
    /\ Len(last.trades) > 0
    /\ last.order.id \notin {x.id : x \in RestingOrders(market)}
    /\ \E x \in RestingOrders(market) :
           /\ x.id = last.trades[Len(last.trades)].other.id
           /\ x.quantity < MaxQuantity

\* -------------------------------------------------------------- priority
\* Resting order y is better than resting order x of the same side: a higher
\* limit for buys, a lower one for sells, or the same limit and an earlier
\* created_at.
Better(y, x) ==
    \/ IF y.side = "Buy" THEN y.mode.limit > x.mode.limit
       ELSE y.mode.limit < x.mode.limit
    \/ y.mode.limit = x.mode.limit /\ y.created_at < x.created_at

PriceTimePriority(m, o, c, r) ==
    (c # <<>> /\ r.err = "Ok") =>
        \A i \in 1..Len(c) :
            \A y \in Range(OtherSide(m.books[o.asset], o.side)) :
                ~ /\ y.id \notin {c[k].id : k \in 1..Len(c)}
                  /\ matches(o, y)
                  /\ Better(y, c[i])

\* C17. Price-time priority: when an incoming order trades with a resting
\* order X, no other resting order Y of X's side that matches the incoming
\* order is both left unfilled by the event and better than X.
C17_PriceTimePriority ==
    [](Serving =>
        ForEachTaker(market, Modes,
            LAMBDA o : PriceTimePriority(market, o, CandidatesOf(market, o),
                                         process(market, OrderEvent(o)))))

\* ---------------------------------------------------------------- cancel
\* Market m2 is m with resting order x cancelled by the event ev: x has left
\* its book, x's owner has x's lock back, the caller has paid the fee, and
\* nothing else differs.
CancelledAs(m, ev, x, m2) ==
    /\ DOMAIN m2.books = DOMAIN m.books
    /\ \A a \in DOMAIN m.books :
           IF a = x.asset
           THEN /\ m2.books[a].sell_orders =
                       SelectSeq(m.books[a].sell_orders, LAMBDA y : y.id # x.id)
                /\ m2.books[a].buy_orders =
                       SelectSeq(m.books[a].buy_orders, LAMBDA y : y.id # x.id)
                /\ m2.books[a].asset_id = m.books[a].asset_id
           ELSE m2.books[a] = m.books[a]
    /\ DOMAIN m2.portfolios = DOMAIN m.portfolios
    /\ \A p \in DOMAIN m.portfolios :
           /\ m2.portfolios[p].coins.total_amount =
                  m.portfolios[p].coins.total_amount
                      - (IF p = ev.portfolio THEN Fee ELSE 0)
           /\ m2.portfolios[p].coins.locked_amount =
                  m.portfolios[p].coins.locked_amount
                      - (IF p = x.portfolio /\ x.side = "Buy"
                         THEN LockOf(x, x.quantity) ELSE 0)
           /\ DOMAIN m2.portfolios[p].assets = DOMAIN m.portfolios[p].assets
           /\ \A a \in DOMAIN m.portfolios[p].assets :
                  /\ m2.portfolios[p].assets[a].total_amount =
                         m.portfolios[p].assets[a].total_amount
                  /\ m2.portfolios[p].assets[a].locked_amount =
                         m.portfolios[p].assets[a].locked_amount
                             - (IF p = x.portfolio /\ x.side = "Sell" /\ a = x.asset
                                THEN LockOf(x, x.quantity) ELSE 0)

CancelReleasesLock(m, ev, r) ==
    (ev.type = "CancelOrder" /\ r.err = "Ok") =>
        \E x \in RestingOrders(m) : x.id = ev.order_id /\ CancelledAs(m, ev, x, r.m)

\* C18. Cancel releases the order's lock: a successful CancelOrder event
\* removes exactly the named order from the book, lowers the locked amount of
\* the order's owner by the order's quantity of the asset (Sell) or by
\* limit * quantity coins (Buy), changes no other locked amount and changes
\* no total but the caller's coins, which fall by the fee.
C18_CancelReleasesLock ==
    [](Serving =>
        ForEachEvent(LAMBDA ev : CancelReleasesLock(market, ev, process(market, ev))))

CancelWrongAsset(m, ev, billed, r) ==
    (ev.type = "CancelOrder" /\ billed.err = "Ok" /\ ev.asset \in DOMAIN m.books) =>
        /\ (\E x \in RestingOrders(m) : x.id = ev.order_id /\ x.asset # ev.asset) =>
               r.err = "InvalidAssetId"
        /\ (\A x \in RestingOrders(m) : x.id # ev.order_id) =>
               r.err = "OrderNotFound"

\* C19. Cancel with the wrong asset: a CancelOrder event whose fee is paid,
\* whose order id names a resting order and whose asset is another existing
\* asset than the order's fails with InvalidAssetId; one whose order id rests
\* in no book fails with OrderNotFound.
C19_CancelWrongAsset ==
    [](Serving =>
        ForEachEvent(LAMBDA ev : CancelWrongAsset(market, ev, bill_fee_for(market, ev),
                                                  process(market, ev))))

\* ----------------------------------------------------------- Order::split
\* Order::split called on its own: on any order Order::new returns, with any
\* split quantity from 0 to one more than the largest order quantity.
SplitOrders ==
    {Order_new(p, a, s, q, mode, Expiry + 1, 1, 1).order :
        p \in AllPortfolios, a \in AllAssets, s \in Sides, q \in 1..MaxQuantity,
        mode \in Modes \ {Limit(0)}}

InitSplit ==
    /\ market = Market_new
    /\ main_pc = 0
    /\ started = FALSE
    /\ poisoned = FALSE
    /\ clock = 0
    /\ nevents = 0
    /\ last = Setup("none")
    /\ trip = NoTrip
    /\ LockIdle
    /\ call \in [self : SplitOrders, split_quantity : 0..(MaxQuantity + 1)]
    /\ ret = NotReturned

OrderSplit ==
    /\ ret = NotReturned
    /\ ret' = split(call.self, call.split_quantity)
    /\ UNCHANGED <<market, main_pc, started, poisoned, clock, nevents, last, trip,
                   lockvars, call>>

NextSplit == OrderSplit

SpecSplit == InitSplit /\ [][NextSplit]_vars

\* Order half is order self but for its quantity.
SameButQuantity(half, self) == half = [self EXCEPT !.quantity = half.quantity]

\* C20. Order::split contract: on an order of quantity n, split(q) fails with
\* CantSplitOrder for every q outside 0 < q < n, q = 0 and q >= n included;
\* for 0 < q < n it returns two orders of quantity > 0 whose quantities sum to
\* n and that equal the original in every other field.
C20_SplitContract ==
    ret # NotReturned =>
        IF 0 < call.split_quantity /\ call.split_quantity < call.self.quantity
        THEN /\ ret.err = "Ok"
             /\ ret.left.quantity > 0
             /\ ret.right.quantity > 0
             /\ ret.left.quantity + ret.right.quantity = call.self.quantity
             /\ SameButQuantity(ret.left, call.self)
             /\ SameButQuantity(ret.right, call.self)
        ELSE ret.err = "CantSplitOrder"

\* ------------------------------------------------------ invariant breaches
\* The split that fill_order asks for on order o with candidates c: none when
\* the candidates fill o exactly, else a split quantity strictly between 0 and
\* the quantity of the order that is split.
SplitInRange(o, c, fill_sum) ==
    /\ fill_sum > o.quantity =>
           /\ 0 < fill_sum - o.quantity
           /\ fill_sum - o.quantity < c[Len(c)].quantity
    /\ fill_sum < o.quantity => 0 < fill_sum

NoBreach(m, ev, c, r) ==
    /\ r.err \notin {"NoLimitForBestOrder", "CantSplitOrder"}
    /\ ev.type = "CancelOrder" =>
           /\ Resting(m, ev.asset, ev.order_id).mode.kind # "Best"
              \/ Resting(m, ev.asset, ev.order_id) = NoOrder
           /\ bill_fee_for(m, ev).err = "Ok" => r.err # "Panic"
    /\ ev.type = "Order" /\ c # <<>> => SplitInRange(ev.order, c, SumQuantity(c))

\* C21. Invariant-breach errors are unreachable: no event the server can
\* process fails with NoLimitForBestOrder or CantSplitOrder, no cancel finds a
\* Best order in a book (so cancel_order never panics), and every split that
\* fill_order asks for has 0 < q < quantity of the order it splits.
C21_NoBreach ==
    [](Serving =>
        ForEachEvent(LAMBDA ev : NoBreach(market, ev, CandidatesOf(market, ev.order),
                                          process(market, ev))))

\* A Best order has traded at the limit of a resting order that was split,
\* and a remainder of that order is back in the book.
C21_Witness ==
    /\ last.result = "Ok"
    /\ last.mode = "Best"
    /\ last.trades # <<>>
    /\ \E x \in RestingOrders(market) :
           /\ x.id = last.trades[Len(last.trades)].other.id
           /\ x.quantity > 0

\* ----------------------------------------------------------- crossed book
\* No book of m holds a resting Buy Limit(b) and a resting Sell Limit(s) with
\* s <= b.
Uncrossed(m) ==
    \A a \in DOMAIN m.books :
        \A b \in Range(m.books[a].buy_orders), s \in Range(m.books[a].sell_orders) :
            (b.mode.kind = "Limit" /\ s.mode.kind = "Limit") =>
                ~(s.mode.limit <= b.mode.limit)

\* C22. The book is never crossed: neither the market nor the market any
\* event the server can process next leaves holds, in one book, a resting
\* Buy Limit(b) and a resting Sell Limit(s) with s <= b.
C22_NeverCrossed ==
    [](/\ Uncrossed(market)
       /\ Serving => ForEachEvent(LAMBDA ev : Uncrossed(process(market, ev).m)))

\* --------------------------------------------------------- stranded locks
\* What the resting orders of portfolio p lock: limit * quantity coins for
\* each Buy, quantity units of asset a for each Sell on a.
RECURSIVE SumLocks(_)
SumLocks(orders) ==
    IF orders = {} THEN 0
    ELSE LET x == CHOOSE y \in orders : TRUE
         IN LockOf(x, x.quantity) + SumLocks(orders \ {x})

RestingBuysOf(m, p) == {x \in RestingOrders(m) : x.portfolio = p /\ x.side = "Buy"}
RestingSellsOf(m, p, a) ==
    {x \in RestingOrders(m) : x.portfolio = p /\ x.side = "Sell" /\ x.asset = a}

\* C23. No stranded locks: the locked coins of every portfolio are at most
\* the sum of limit * quantity over its resting Buy orders, and its locked
\* amount of every asset is at most the sum of the quantities of its resting
\* Sell orders on that asset.
C23_NoStrandedLocks ==
    \A p \in DOMAIN market.portfolios :
        /\ market.portfolios[p].coins.locked_amount <= SumLocks(RestingBuysOf(market, p))
        /\ \A a \in DOMAIN market.portfolios[p].assets :
               market.portfolios[p].assets[a].locked_amount
                   <= SumLocks(RestingSellsOf(market, p, a))

\* ------------------------------------------------------- owner's cancel
\* The cancel of resting order o by its owner, naming o's id and asset.
OwnerCancel(o) == CancelEvent(o.portfolio, o.id, o.asset)

OwnerCancels(m, o, r) ==
    m.portfolios[o.portfolio].coins.total_amount
            >= m.portfolios[o.portfolio].coins.locked_amount + Fee
        => /\ r.err = "Ok"
           /\ o.id \notin RestingIds(r.m, o.asset)

\* C24. An owner can always cancel: for every resting order o, the
\* CancelOrder event of o's owner with o's id and o's asset succeeds whenever
\* the owner has at least 1 free coin for the fee, and o is then no longer in
\* the book.
C24_OwnerCanCancel ==
    [](Serving =>
        \A o \in RestingOrders(market) :
            OwnerCancels(market, o, process(market, OwnerCancel(o))))

\* ------------------------------------------------------------ limit prices
\* The order of the buyer and the order of the seller in trade t.
BuyOrderOf(t) == IF t.incoming.side = "Buy" THEN t.incoming ELSE t.other
SellOrderOf(t) == IF t.incoming.side = "Sell" THEN t.incoming ELSE t.other

\* Coins that left portfolio p between m and m2, the fee of the event's
\* initiator aside.
CoinsOut(m, m2, p, initiator) ==
    m.portfolios[p].coins.total_amount - m2.portfolios[p].coins.total_amount
        - (IF p = initiator THEN Fee ELSE 0)

WithinLimit(t) ==
    /\ BuyOrderOf(t).mode.kind = "Limit" => t.price <= BuyOrderOf(t).mode.limit
    /\ SellOrderOf(t).mode.kind = "Limit" => t.price >= SellOrderOf(t).mode.limit

\* The only trade t of an event between two portfolios: what the buyer paid
\* and what the seller received for t.quantity units.
PaidWithinLimit(m, o, t, r) ==
    /\ BuyOrderOf(t).mode.kind = "Limit" =>
           CoinsOut(m, r.m, t.buyer, o.portfolio)
               <= BuyOrderOf(t).mode.limit * t.quantity
    /\ SellOrderOf(t).mode.kind = "Limit" =>
           0 - CoinsOut(m, r.m, t.seller, o.portfolio)
               >= SellOrderOf(t).mode.limit * t.quantity

NoWorseThanLimit(m, o, r) ==
    r.err = "Ok" =>
        /\ \A i \in 1..Len(r.trades) : WithinLimit(r.trades[i])
        /\ Len(r.trades) = 1 /\ r.trades[1].buyer # r.trades[1].seller =>
               PaidWithinLimit(m, o, r.trades[1], r)

\* C25. No trade at a price worse than a party's own limit: in every trade an
\* event executes, a buyer whose order is Limit(b) pays at most b coins per
\* unit and a seller whose order is Limit(s) receives at least s coins per
\* unit, whether that order is the incoming or the resting one.
C25_NoWorseThanLimit ==
    [](Serving =>
        ForEachTaker(market, Modes,
            LAMBDA o : NoWorseThanLimit(market, o, process(market, OrderEvent(o)))))

\* Two Limit orders of different limits and of different portfolios have
\* traded.
C25_Witness ==
    /\ last.result = "Ok"
    /\ last.mode = "Limit"
    /\ Len(last.trades) = 1
    /\ last.trades[1].buyer # last.trades[1].seller
    /\ last.trades[1].incoming.mode.limit # last.trades[1].other.mode.limit

====
